---- MODULE Spec2Model ----
(***************************************************************************)
(* Model of the session store of College-Event-Manager:                    *)
(*   src/src/context/UserContext.js  (UserProvider: restore, signIn,       *)
(*                                    signOut, updateProfile, queries)     *)
(*   src/src/utils/validation.js     (validateStudentForm,                 *)
(*                                    validateAdminForm)                   *)
(* The persistence adapter (services/storageService: saveKey, loadKey) is  *)
(* imported by UserContext.js but its source is not part of src/; it is    *)
(* modelled from the interface section of the specification.               *)
(***************************************************************************)
EXTENDS Integers, Sequences, FiniteSets, TLC

(***************************************************************************)
(* JavaScript values.  t is the tag of the value; strings carry their      *)
(* characters so that trim() and length are computed, numbers are the      *)
(* rationals num/den (den = 0 is NaN), objects carry a function from their *)
(* own keys to values.                                                     *)
(***************************************************************************)
Undefined == [t |-> "undefined"]

Null == [t |-> "null"]

Bool(b) == [t |-> "boolean", v |-> b]

Num(n) == [t |-> "number", num |-> n, den |-> 1]

Frac(n, d) == [t |-> "number", num |-> n, den |-> d]

Str(chars) == [t |-> "string", v |-> chars]

Text(s) == [t |-> "string", text |-> s]

Obj(f) == [t |-> "object", v |-> f]

IsObj(x) == x.t = "object"

\* typeof x
typeof(x) == IF x.t = "null" THEN "object" ELSE x.t

\* ToBoolean(x): the truthiness used by !x, x && y, x || y, if (x)
Truthy(x) ==
    CASE x.t = "undefined" -> FALSE
      [] x.t = "null"      -> FALSE
      [] x.t = "boolean"   -> x.v
      [] x.t = "number"    -> x.den # 0 /\ x.num # 0
      [] x.t = "string"    -> IF "text" \in DOMAIN x THEN x.text # "" ELSE Len(x.v) > 0
      [] OTHER             -> TRUE

\* x < k and x > k for a number x and an integer k (both false for NaN)
NumLt(x, k) == x.den # 0 /\ x.num < k * x.den

NumGt(x, k) == x.den # 0 /\ x.num > k * x.den

IsInteger(x) == x.t = "number" /\ x.den = 1

\* obj.key : undefined when the object has no such own key
Get(obj, key) == IF key \in DOMAIN obj.v THEN obj.v[key] ELSE Undefined

\* obj?.key
OptGet(obj, key) == IF obj.t \in {"null", "undefined"} THEN Undefined ELSE Get(obj, key)

\* obj.key = val
Put(obj, key, val) ==
    Obj([k \in DOMAIN obj.v \cup {key} |-> IF k = key THEN val ELSE obj.v[k]])

\* { ...a, ...b }
Spread(a, b) ==
    Obj([k \in DOMAIN a.v \cup DOMAIN b.v |-> IF k \in DOMAIN b.v THEN b.v[k] ELSE a.v[k]])

\* String.prototype.trim on a sequence of characters
RECURSIVE TrimStart(_)
TrimStart(s) == IF s # <<>> /\ Head(s) = " " THEN TrimStart(Tail(s)) ELSE s

RECURSIVE TrimEnd(_)
TrimEnd(s) ==
    IF s # <<>> /\ s[Len(s)] = " " THEN TrimEnd(SubSeq(s, 1, Len(s) - 1)) ELSE s

trim(s) == TrimEnd(TrimStart(s))

(***************************************************************************)
(* src/src/utils/validation.js                                             *)
(***************************************************************************)
\* variant of NameErrors: measures the name without trim()
NameErrorsUntrimmed(data) ==
    LET name == Get(data, "name") IN
    IF ~Truthy(name) \/ typeof(name) # "string" \/ Len(name.v) = 0
    THEN [name |-> "Name is required"]
    ELSE IF Len(name.v) < 2
         THEN [name |-> "Name must be at least 2 characters"]
         ELSE <<>>

\* the name rule shared by both validators (validation.js:15-19, 51-55)
NameErrors(data) ==
    LET name == Get(data, "name") IN
    IF ~Truthy(name) \/ typeof(name) # "string" \/ Len(trim(name.v)) = 0
    THEN [name |-> "Name is required"]
    ELSE IF Len(trim(name.v)) < 2
         THEN [name |-> "Name must be at least 2 characters"]
         ELSE <<>>

RollNumberErrors(data) ==
    LET rollNumber == Get(data, "rollNumber") IN
    IF Truthy(rollNumber) /\ typeof(rollNumber) # "string"
    THEN [rollNumber |-> "Roll number must be a string"]
    ELSE <<>>

BranchErrors(data) ==
    LET branch == Get(data, "branch") IN
    IF Truthy(branch) /\ typeof(branch) # "string"
    THEN [branch |-> "Branch must be a string"]
    ELSE <<>>

YearErrors(data) ==
    LET year == Get(data, "year") IN
    IF Truthy(year) /\ (typeof(year) # "number" \/ NumLt(year, 1) \/ NumGt(year, 4))
    THEN [year |-> "Year must be between 1 and 4"]
    ELSE <<>>

IdErrors(data) ==
    LET id == Get(data, "id") IN
    IF ~Truthy(id) \/ typeof(id) # "string" \/ Len(trim(id.v)) = 0
    THEN [id |-> "ID is required"]
    ELSE <<>>

\* variant of AdminFlagErrors: accepts any truthy flag (!data.isAdmin)
AdminFlagErrorsTruthy(data) ==
    IF ~Truthy(Get(data, "isAdmin"))
    THEN [isAdmin |-> "Admin flag must be true"]
    ELSE <<>>

AdminFlagErrors(data) ==
    IF Get(data, "isAdmin") # Bool(TRUE)
    THEN [isAdmin |-> "Admin flag must be true"]
    ELSE <<>>

\* the union of error mappings over disjoint keys
MergeErrors(e1, e2) ==
    [k \in DOMAIN e1 \cup DOMAIN e2 |-> IF k \in DOMAIN e1 THEN e1[k] ELSE e2[k]]

validateStudentForm(data) ==
    LET errors == MergeErrors(MergeErrors(NameErrors(data), RollNumberErrors(data)),
                              MergeErrors(BranchErrors(data), YearErrors(data)))
    IN  [isValid |-> Cardinality(DOMAIN errors) = 0, errors |-> errors]

validateAdminForm(data) ==
    LET errors == MergeErrors(NameErrors(data),
                              MergeErrors(IdErrors(data), AdminFlagErrors(data)))
    IN  [isValid |-> Cardinality(DOMAIN errors) = 0, errors |-> errors]

(***************************************************************************)
(* Bounds of the model and the inputs the operations are called with.      *)
(***************************************************************************)
\* calls of signIn / signOut / updateProfile made over a run
MaxCalls == 2

\* calls made over a run of the specification with fairness
MaxLiveCalls == 1

\* calls made over a run of the specification with the wider inputs
MaxWideCalls == 1

\* calls that may be awaiting the adapter at the same time
MaxInFlight == 2

\* process restarts over a run
MaxRestarts == 1

Jo == Str(<<"J", "o">>)

\* candidates handed to signIn
UserObjs ==
    { Obj([name |-> Jo, isAdmin |-> Bool(FALSE)]),
      Obj([name |-> Jo, id |-> Str(<<"s", "1">>), year |-> Num(3)]),
      Obj([name |-> Str(<<" ", "J", " ">>), isAdmin |-> Bool(FALSE)]),
      Obj([name |-> Str(<<"A", "d">>), isAdmin |-> Bool(TRUE)]),
      Obj([isAdmin |-> Bool(TRUE)]),
      Obj([name |-> Str(<<"A", "d">>), isAdmin |-> Str(<<"y">>)]) }

\* partial field sets handed to updateProfile
FieldSets ==
    { Obj([year |-> Num(5)]),
      Obj([year |-> Num(4)]),
      Obj([name |-> Str(<<"J">>)]),
      Obj([id |-> Str(<<>>)]) }

\* further candidates handed to signIn: an empty id, a supplied id
MoreUserObjs ==
    { Obj([name |-> Jo, id |-> Str(<<>>), isAdmin |-> Bool(FALSE),
           branch |-> Str(<<"C", "S">>)]),
      Obj([name |-> Str(<<"A", "d">>), id |-> Str(<<"a", "1">>), isAdmin |-> Bool(TRUE)]) }

\* further field sets handed to updateProfile: years outside 1..4 or not whole
MoreFieldSets ==
    { Obj([year |-> Num(0)]),
      Obj([year |-> Num(-1)]),
      Obj([year |-> Frac(5, 2)]) }

\* the values a form field is filled with; Undefined leaves the field out
NameChoices ==
    {Undefined, Jo, Str(<<"J">>), Str(<<>>), Str(<<" ">>), Str(<<" ", "J", " ">>), Num(7)}

TextChoices == {Undefined, Str(<<>>), Str(<<"C", "S">>), Num(0), Num(7), Bool(FALSE)}

YearChoices ==
    {Undefined, Num(0), Num(-1), Num(1), Num(4), Num(5), Frac(5, 2), Str(<<"3">>)}

IdChoices == {Undefined, Str(<<>>), Str(<<" ">>), Str(<<"a", "1">>), Num(7)}

AdminFlagChoices == {Undefined, Bool(TRUE), Bool(FALSE), Str(<<"y">>), Num(1)}

\* the object literal with the fields that are filled in
FormOf(n, r, b, y) ==
    LET all == [name |-> n, rollNumber |-> r, branch |-> b, year |-> y]
    IN  Obj([k \in {f \in DOMAIN all : all[f] # Undefined} |-> all[k]])

AdminFormOf(n, i, a) ==
    LET all == [name |-> n, id |-> i, isAdmin |-> a]
    IN  Obj([k \in {f \in DOMAIN all : all[f] # Undefined} |-> all[k]])

\* student form data
StudentForms ==
    { FormOf(n, r, b, y) : n \in NameChoices, r \in TextChoices, b \in TextChoices,
                           y \in YearChoices }

\* admin form data
AdminForms ==
    { AdminFormOf(n, i, a) : n \in NameChoices, i \in IdChoices, a \in AdminFlagChoices }

\* form data handed to the validators
Forms == StudentForms \cup AdminForms

\* `user_${Date.now()}_${Math.random().toString(36).substr(2, 9)}`
GeneratedId(time, rand) == Str(<<"u", "s", "e", "r", "_", time, "_", rand>>)

\* values of Date.now() and of the random suffix that the model draws
ClockDigits == {"1"}

RandomChars == {"a"}

GeneratedIds == {GeneratedId(time, rand) : time \in ClockDigits, rand \in RandomChars}

\* what the durable store holds when the first process starts: nothing, or the
\* profile an earlier run of the application signed in with
StoredAtStart ==
    {Null} \cup {Obj([name |-> Jo, isAdmin |-> Bool(FALSE), id |-> id]) : id \in GeneratedIds}

(***************************************************************************)
(* services/storageService (source not in src/): one slot under the key    *)
(* CAMPUSHUB_CURRENT_USER.  load surfaces "not found" and "error" as null; *)
(* save resolves to nothing, and a failed save leaves the slot as it was.  *)
(***************************************************************************)
loadKey(slot, ok) == IF ok THEN slot ELSE Null

saveKey(slot, value, ok) == IF ok THEN value ELSE slot

(***************************************************************************)
(* src/src/context/UserContext.js                                          *)
(***************************************************************************)
VARIABLES
    currentUser,       \* useState(null)
    isAuthenticated,   \* useState(false)
    loading,           \* useState(true)
    store,             \* the durable value under CAMPUSHUB_CURRENT_USER
    initPc,            \* position of the restore effect: reading, resuming, done
    initUser,          \* `user`, the value loadKey resolved to
    pending,           \* calls suspended at `await saveKey(...)`; a signOut with the call
                       \* that had returned last when it was made (prev)
    captured,          \* currentUser of the render in which the handler of the last call was created
    calls,             \* number of calls made so far
    restarts,          \* number of process restarts so far
    event,             \* the last call or return of this process, or its start
    lastReturn,        \* the last call that returned, while no later call changed anything
    interleaved,       \* a call changed the session before this process's restore completed
    formData,          \* the form data a screen hands to a validator of utils/validation.js
    validation         \* what that validator returned

vars == <<currentUser, isAuthenticated, loading, store, initPc, initUser, pending,
          captured, calls, restarts, event, lastReturn, interleaved, formData, validation>>

\* no validator has been called
NotValidated == [fn |-> "none"]

NoReturn == [op |-> "none"]

\* Object.values(result.errors).join(', ') : keys in insertion order
ErrorKeyOrder == <<"name", "rollNumber", "branch", "year">>

RECURSIVE JoinFrom(_, _, _)
JoinFrom(errors, i, acc) ==
    IF i > Len(ErrorKeyOrder) THEN acc
    ELSE IF ErrorKeyOrder[i] \in DOMAIN errors
         THEN JoinFrom(errors, i + 1,
                       IF acc = "" THEN errors[ErrorKeyOrder[i]]
                       ELSE acc \o ", " \o errors[ErrorKeyOrder[i]])
         ELSE JoinFrom(errors, i + 1, acc)

\* { success: false, message: ..., errors: result.errors }
Rejection(errors) ==
    Obj([success |-> Bool(FALSE),
         message |-> Text(JoinFrom(errors, 1, "")),
         errors  |-> Obj([k \in DOMAIN errors |-> Text(errors[k])])])

\* { success: true }
Success == Obj([success |-> Bool(TRUE)])

\* { success: false, message: 'No user signed in' }
NoUser == Obj([success |-> Bool(FALSE), message |-> Text("No user signed in")])

\* UserProvider as mounted, lines 12-14, before its effect has run
SessionInit ==
    /\ currentUser = Null
    /\ isAuthenticated = FALSE
    /\ loading = TRUE
    /\ store \in StoredAtStart
    /\ initPc = "reading"
    /\ initUser = Undefined
    /\ pending = <<>>
    /\ captured = Null
    /\ calls = 0
    /\ restarts = 0
    /\ event = [kind |-> "start"]
    /\ lastReturn = NoReturn
    /\ interleaved = FALSE

Init ==
    /\ SessionInit
    /\ formData = Undefined
    /\ validation = NotValidated

\* useEffect, line 18: the adapter answers the read
InitRead(ok) ==
    /\ initPc = "reading"
    /\ initUser' = loadKey(store, ok)
    /\ initPc' = "resuming"
    /\ UNCHANGED <<currentUser, isAuthenticated, loading, store, pending, captured,
                   calls, restarts, event, lastReturn, interleaved, formData, validation>>

\* variant of InitResume: sets the flag but forgets setCurrentUser(user)
InitResumeFlagOnly ==
    /\ initPc = "resuming"
    /\ IF Truthy(initUser)
       THEN isAuthenticated' = TRUE /\ UNCHANGED currentUser
       ELSE UNCHANGED <<currentUser, isAuthenticated>>
    /\ loading' = FALSE
    /\ initPc' = "done"
    /\ UNCHANGED <<store, initUser, pending, captured, calls, restarts, event,
                   lastReturn, interleaved, formData, validation>>

\* variant of InitResume: setLoading(false) placed inside `if (user)`
InitResumeLoadingInsideIf ==
    /\ initPc = "resuming"
    /\ IF Truthy(initUser)
       THEN currentUser' = initUser /\ isAuthenticated' = TRUE /\ loading' = FALSE
       ELSE UNCHANGED <<currentUser, isAuthenticated, loading>>
    /\ initPc' = "done"
    /\ UNCHANGED <<store, initUser, pending, captured, calls, restarts, event,
                   lastReturn, interleaved, formData, validation>>

\* useEffect, lines 19-23: the continuation after the await
InitResume ==
    /\ initPc = "resuming"
    /\ IF Truthy(initUser)
       THEN currentUser' = initUser /\ isAuthenticated' = TRUE
       ELSE UNCHANGED <<currentUser, isAuthenticated>>
    /\ loading' = FALSE
    /\ initPc' = "done"
    /\ UNCHANGED <<store, initUser, pending, captured, calls, restarts, event,
                   lastReturn, interleaved, formData, validation>>

\* the step of a call that returns without touching state or adapter
Reject(op, arg, cand, result) ==
    /\ event' = [kind |-> "call", op |-> op, arg |-> arg, cand |-> cand,
                 accepted |-> FALSE, result |-> result]
    /\ UNCHANGED <<currentUser, isAuthenticated, loading, store, initPc, initUser,
                   pending, restarts, lastReturn, interleaved, formData, validation>>

\* the step of a call that runs up to `await saveKey(CAMPUSHUB_CURRENT_USER, value)`
Suspend(op, arg, cand, value) ==
    /\ Len(pending) < MaxInFlight
    /\ pending' = Append(pending, [op |-> op, arg |-> arg, user |-> currentUser',
                                   value |-> value,
                                   prev |-> IF op = "signOut" THEN lastReturn
                                            ELSE NoReturn])
    /\ event' = [kind |-> "call", op |-> op, arg |-> arg, cand |-> cand,
                 accepted |-> TRUE, value |-> value]
    /\ lastReturn' = NoReturn
    /\ interleaved' = (interleaved \/ initPc # "done")
    /\ UNCHANGED <<store, initPc, initUser, restarts, formData, validation>>

\* variant of signIn: generates the id only when the field is missing
\* (userObj.id === undefined), so an empty id is kept
signInKeepsEmptyId(userObj, newId) ==
    /\ calls < MaxCalls
    /\ calls' = calls + 1
    /\ captured' = currentUser
    /\ IF ~Truthy(Get(userObj, "isAdmin")) /\ ~validateStudentForm(userObj).isValid
       THEN Reject("signIn", userObj, userObj,
                   Rejection(validateStudentForm(userObj).errors))
       ELSE LET user == IF Get(userObj, "id") = Undefined
                        THEN Put(userObj, "id", newId)
                        ELSE userObj
            IN  /\ currentUser' = user
                /\ isAuthenticated' = TRUE
                /\ UNCHANGED loading
                /\ Suspend("signIn", userObj, userObj, user)

\* variant of signIn: applies validateAdminForm to an admin candidate before
\* the id is generated
signInValidatesAdminFirst(userObj, newId) ==
    /\ calls < MaxCalls
    /\ calls' = calls + 1
    /\ captured' = currentUser
    /\ IF ~Truthy(Get(userObj, "isAdmin")) /\ ~validateStudentForm(userObj).isValid
       THEN Reject("signIn", userObj, userObj,
                   Rejection(validateStudentForm(userObj).errors))
       ELSE IF Truthy(Get(userObj, "isAdmin")) /\ ~validateAdminForm(userObj).isValid
       THEN Reject("signIn", userObj, userObj,
                   Rejection(validateAdminForm(userObj).errors))
       ELSE LET user == IF ~Truthy(Get(userObj, "id"))
                        THEN Put(userObj, "id", newId)
                        ELSE userObj
            IN  /\ currentUser' = user
                /\ isAuthenticated' = TRUE
                /\ UNCHANGED loading
                /\ Suspend("signIn", userObj, userObj, user)

\* variant of signIn: awaits the write before it sets the in-memory state,
\* so the call step leaves the session as it was
signInPersistsFirst(userObj, newId) ==
    /\ calls < MaxCalls
    /\ calls' = calls + 1
    /\ captured' = currentUser
    /\ IF ~Truthy(Get(userObj, "isAdmin")) /\ ~validateStudentForm(userObj).isValid
       THEN Reject("signIn", userObj, userObj,
                   Rejection(validateStudentForm(userObj).errors))
       ELSE LET user == IF ~Truthy(Get(userObj, "id"))
                        THEN Put(userObj, "id", newId)
                        ELSE userObj
            IN  /\ UNCHANGED <<currentUser, isAuthenticated, loading>>
                /\ Suspend("signIn", userObj, userObj, user)

\* signIn, lines 27-48
signIn(userObj, newId) ==
    /\ calls < MaxCalls
    /\ calls' = calls + 1
    /\ captured' = currentUser
    /\ IF ~Truthy(Get(userObj, "isAdmin")) /\ ~validateStudentForm(userObj).isValid
       THEN Reject("signIn", userObj, userObj,
                   Rejection(validateStudentForm(userObj).errors))
       ELSE LET user == IF ~Truthy(Get(userObj, "id"))
                        THEN Put(userObj, "id", newId)
                        ELSE userObj
            IN  /\ currentUser' = user
                /\ isAuthenticated' = TRUE
                /\ UNCHANGED loading
                /\ Suspend("signIn", userObj, userObj, user)

\* variant of signOut: hands the adapter the signed-in user instead of null
signOutSavesUser ==
    /\ calls < MaxCalls
    /\ calls' = calls + 1
    /\ captured' = currentUser
    /\ currentUser' = Null
    /\ isAuthenticated' = FALSE
    /\ UNCHANGED loading
    /\ Suspend("signOut", Undefined, Undefined, currentUser)

\* variant of signOut: raises the loading flag while it signs out
signOutSetsLoading ==
    /\ calls < MaxCalls
    /\ calls' = calls + 1
    /\ captured' = currentUser
    /\ currentUser' = Null
    /\ isAuthenticated' = FALSE
    /\ loading' = TRUE
    /\ Suspend("signOut", Undefined, Undefined, Null)

\* variant of signOut: flips the flag, setIsAuthenticated(prev => !prev)
signOutTogglesFlag ==
    /\ calls < MaxCalls
    /\ calls' = calls + 1
    /\ captured' = currentUser
    /\ currentUser' = Null
    /\ isAuthenticated' = ~isAuthenticated
    /\ UNCHANGED loading
    /\ Suspend("signOut", Undefined, Undefined, Null)

\* signOut, lines 52-55
signOut ==
    /\ calls < MaxCalls
    /\ calls' = calls + 1
    /\ captured' = currentUser
    /\ currentUser' = Null
    /\ isAuthenticated' = FALSE
    /\ UNCHANGED loading
    /\ Suspend("signOut", Undefined, Undefined, Null)

\* updateProfile, lines 59-76; closure is the currentUser of the render whose
\* callback is invoked: the current render, or the render of the handler that
\* made the previous call and now makes this one
updateProfile(fields, closure) ==
    /\ calls < MaxCalls
    /\ calls' = calls + 1
    /\ captured' = closure
    /\ IF ~Truthy(closure)
       THEN Reject("updateProfile", fields, closure, NoUser)
       ELSE LET updated == Spread(closure, fields) IN
            IF ~Truthy(Get(updated, "isAdmin")) /\ ~validateStudentForm(updated).isValid
            THEN Reject("updateProfile", fields, updated,
                        Rejection(validateStudentForm(updated).errors))
            ELSE /\ currentUser' = updated
                 /\ UNCHANGED <<isAuthenticated, loading>>
                 /\ Suspend("updateProfile", fields, updated, updated)

\* variant of ReturnValue: reports the outcome of the write
ReturnValueReportsWrite(op, ok) ==
    IF ok THEN Success ELSE Obj([success |-> Bool(FALSE)])

\* the value each call returns after its await (lines 49, 56, 77), whatever
\* became of the write
ReturnValue(op, ok) ==
    CASE op = "signIn"        -> Success
      [] op = "signOut"       -> Success
      [] op = "updateProfile" -> Success

\* variant of Resume: a failed write is attempted again, the call stays
\* suspended until a write succeeds
ResumeRetries(i, ok) ==
    /\ i \in 1..Len(pending)
    /\ store' = saveKey(store, pending[i].value, ok)
    /\ pending' = IF ok THEN SubSeq(pending, 1, i - 1) \o SubSeq(pending, i + 1, Len(pending))
                  ELSE pending
    /\ event' = [kind |-> "return", op |-> pending[i].op, value |-> pending[i].value,
                 ok |-> ok, result |-> ReturnValue(pending[i].op, ok)]
    /\ lastReturn' = [op |-> pending[i].op, arg |-> pending[i].arg,
                      user |-> pending[i].user, ok |-> ok, before |-> store,
                      result |-> ReturnValue(pending[i].op, ok), process |-> restarts]
    /\ UNCHANGED <<currentUser, isAuthenticated, loading, initPc, initUser, captured,
                   calls, restarts, interleaved, formData, validation>>

\* the adapter settles the write of the i-th suspended call, which then returns
Resume(i, ok) ==
    /\ i \in 1..Len(pending)
    /\ store' = saveKey(store, pending[i].value, ok)
    /\ pending' = SubSeq(pending, 1, i - 1) \o SubSeq(pending, i + 1, Len(pending))
    /\ event' = [kind |-> "return", op |-> pending[i].op, value |-> pending[i].value,
                 ok |-> ok, result |-> ReturnValue(pending[i].op, ok)]
    /\ lastReturn' = [op |-> pending[i].op, arg |-> pending[i].arg,
                      user |-> pending[i].user, ok |-> ok, before |-> store,
                      result |-> ReturnValue(pending[i].op, ok), process |-> restarts]
    /\ UNCHANGED <<currentUser, isAuthenticated, loading, initPc, initUser, captured,
                   calls, restarts, interleaved, formData, validation>>

\* the process exits and a new one mounts UserProvider (lines 12-14, 16) over
\* the same durable store; calls still awaiting the adapter are lost
Restart ==
    /\ restarts < MaxRestarts
    /\ restarts' = restarts + 1
    /\ currentUser' = Null
    /\ isAuthenticated' = FALSE
    /\ loading' = TRUE
    /\ initPc' = "reading"
    /\ initUser' = Undefined
    /\ pending' = <<>>
    /\ captured' = Null
    /\ event' = [kind |-> "restart"]
    /\ interleaved' = FALSE
    /\ UNCHANGED <<store, calls, lastReturn, formData, validation>>

\* the derived queries, lines 80-82
isAdmin == Bool(OptGet(currentUser, "isAdmin") = Bool(TRUE))

isStudent ==
    IF Truthy(currentUser)
    THEN Bool(~Truthy(Get(currentUser, "isAdmin")))
    ELSE currentUser

getDisplayName ==
    IF Truthy(OptGet(currentUser, "name")) THEN OptGet(currentUser, "name") ELSE Text("Guest")

\* a function value
Function(f) == [t |-> "function", name |-> f]

\* the value prop of UserContext.Provider, lines 86-98: what useUser() returns
contextValue ==
    Obj([currentUser     |-> currentUser,
         user            |-> currentUser,
         isAuthenticated |-> Bool(isAuthenticated),
         loading         |-> Bool(loading),
         isLoading       |-> Bool(loading),
         signIn          |-> Function("signIn"),
         signOut         |-> Function("signOut"),
         updateProfile   |-> Function("updateProfile"),
         isAdmin         |-> Function("isAdmin"),
         isStudent       |-> Function("isStudent"),
         getDisplayName  |-> Function("getDisplayName")])

\* what evaluating f() throws when f is not a function
TypeError == [t |-> "throw", error |-> "TypeError"]

\* useUser().query() for a query that takes no argument
CallQuery(query) ==
    LET f == Get(contextValue, query) IN
    CASE f = Function("isAdmin")        -> isAdmin
      [] f = Function("isStudent")      -> isStudent
      [] f = Function("getDisplayName") -> getDisplayName
      [] OTHER                          -> TypeError

Next ==
    \/ \E ok \in BOOLEAN : InitRead(ok)
    \/ InitResume
    \/ \E userObj \in UserObjs, newId \in GeneratedIds : signIn(userObj, newId)
    \/ signOut
    \/ \E fields \in FieldSets : updateProfile(fields, currentUser)
    \/ \E fields \in FieldSets : updateProfile(fields, captured)
    \/ \E i \in 1..MaxInFlight, ok \in BOOLEAN : Resume(i, ok)
    \/ Restart

Spec == Init /\ [][Next]_vars

\* the same steps, with at most MaxLiveCalls calls
LiveNext ==
    \/ \E ok \in BOOLEAN : InitRead(ok)
    \/ InitResume
    \/ calls < MaxLiveCalls /\ \E userObj \in UserObjs, newId \in GeneratedIds : signIn(userObj, newId)
    \/ calls < MaxLiveCalls /\ signOut
    \/ calls < MaxLiveCalls /\ \E fields \in FieldSets : updateProfile(fields, currentUser)
    \/ calls < MaxLiveCalls /\ \E fields \in FieldSets : updateProfile(fields, captured)
    \/ \E i \in 1..MaxInFlight, ok \in BOOLEAN : Resume(i, ok)
    \/ Restart

\* the adapter answers the read and the event loop runs the continuation
LiveSpec ==
    /\ Init
    /\ [][LiveNext]_vars
    /\ WF_vars(\E ok \in BOOLEAN : InitRead(ok))
    /\ WF_vars(InitResume)

\* the same steps, with at most MaxWideCalls calls and the wider inputs
WideNext ==
    \/ \E ok \in BOOLEAN : InitRead(ok)
    \/ InitResume
    \/ calls < MaxWideCalls /\ \E userObj \in UserObjs \cup MoreUserObjs, newId \in GeneratedIds : signIn(userObj, newId)
    \/ calls < MaxWideCalls /\ signOut
    \/ calls < MaxWideCalls /\ \E fields \in FieldSets \cup MoreFieldSets : updateProfile(fields, currentUser)
    \/ calls < MaxWideCalls /\ \E fields \in FieldSets \cup MoreFieldSets : updateProfile(fields, captured)
    \/ \E i \in 1..MaxInFlight, ok \in BOOLEAN : Resume(i, ok)
    \/ Restart

WideSpec == Init /\ [][WideNext]_vars

\* the same steps, with an adapter that answers every read and completes
\* every write
ReliableNext ==
    \/ InitRead(TRUE)
    \/ InitResume
    \/ \E userObj \in UserObjs, newId \in GeneratedIds : signIn(userObj, newId)
    \/ signOut
    \/ \E fields \in FieldSets : updateProfile(fields, currentUser)
    \/ \E fields \in FieldSets : updateProfile(fields, captured)
    \/ \E i \in 1..MaxInFlight : Resume(i, TRUE)
    \/ Restart

ReliableSpec == Init /\ [][ReliableNext]_vars

(***************************************************************************)
(* The validators called on their own, as a form screen calls them         *)
(* (src/src/utils/validation.js).                                          *)
(***************************************************************************)
FormInit ==
    /\ SessionInit
    /\ formData \in Forms
    /\ validation = NotValidated

\* validateStudentForm(formData)
CallValidateStudentForm ==
    /\ validation' = [fn |-> "validateStudentForm", value |-> validateStudentForm(formData)]
    /\ UNCHANGED <<currentUser, isAuthenticated, loading, store, initPc, initUser, pending,
                   captured, calls, restarts, event, lastReturn, interleaved, formData>>

\* validateAdminForm(formData)
CallValidateAdminForm ==
    /\ validation' = [fn |-> "validateAdminForm", value |-> validateAdminForm(formData)]
    /\ UNCHANGED <<currentUser, isAuthenticated, loading, store, initPc, initUser, pending,
                   captured, calls, restarts, event, lastReturn, interleaved, formData>>

FormNext ==
    \/ CallValidateStudentForm
    \/ CallValidateAdminForm

FormSpec == FormInit /\ [][FormNext]_vars

TypeOK ==
    /\ isAuthenticated \in BOOLEAN
    /\ loading \in BOOLEAN
    /\ initPc \in {"reading", "resuming", "done"}
    /\ Len(pending) <= MaxInFlight
    /\ calls \in 0..MaxCalls
    /\ restarts \in 0..MaxRestarts
    /\ interleaved \in BOOLEAN

(***************************************************************************)
(* Vocabulary of the properties                                            *)
(***************************************************************************)
Authenticated == isAuthenticated /\ currentUser # Null

Unauthenticated == ~isAuthenticated /\ currentUser = Null

\* a field the object carries with a value other than undefined
Present(obj, key) == Get(obj, key) # Undefined

\* name is a string of trimmed length >= 2
NameOK(p) == typeof(Get(p, "name")) = "string" /\ Len(trim(Get(p, "name").v)) >= 2

\* the optional student fields, when present, are of their documented kinds
StudentFieldsOK(p) ==
    /\ Present(p, "year") =>
           /\ IsInteger(Get(p, "year"))
           /\ ~NumLt(Get(p, "year"), 1)
           /\ ~NumGt(Get(p, "year"), 4)
    /\ Present(p, "rollNumber") => typeof(Get(p, "rollNumber")) = "string"
    /\ Present(p, "branch") => typeof(Get(p, "branch")) = "string"

\* the per-role constraints of the data model
RoleConstraintsOK(p) ==
    /\ NameOK(p)
    /\ ~Truthy(Get(p, "isAdmin")) => StudentFieldsOK(p)

\* id is a non-empty string
IdOK(p) == typeof(Get(p, "id")) = "string" /\ Len(trim(Get(p, "id").v)) > 0

\* a stored value that is a well-formed Profile
WellFormed(x) == IsObj(x) /\ IdOK(x) /\ RoleConstraintsOK(x)

\* the candidate fails the name rule, or for an admin the admin-flag rule, of
\* the validator variant its isAdmin selects
FailsRequiredRule(cand) ==
    IF Truthy(Get(cand, "isAdmin"))
    THEN DOMAIN validateAdminForm(cand).errors \cap {"name", "isAdmin"} # {}
    ELSE "name" \in DOMAIN validateStudentForm(cand).errors

\* the restore of a fresh process has completed and no call was made in that
\* process
FreshRestore == initPc = "done" /\ event.kind \in {"start", "restart"}

(***************************************************************************)
(* C1: every signIn(candidate) and every updateProfile(fields), judged on  *)
(* the merged candidate, whose candidate fails a required-field rule of    *)
(* the validator its isAdmin selects returns success:false, leaves the     *)
(* in-memory session as it was and issues no adapter write.                *)
(***************************************************************************)
C1_RequiredFieldFailureRejected ==
    [][ ( /\ calls' = calls + 1
          /\ event'.kind = "call"
          /\ event'.op \in {"signIn", "updateProfile"}
          /\ IsObj(event'.cand)
          /\ FailsRequiredRule(event'.cand) )
        => ( /\ ~event'.accepted
             /\ Get(event'.result, "success") = Bool(FALSE)
             /\ UNCHANGED <<currentUser, isAuthenticated, loading, store, pending>> ) ]_vars

(***************************************************************************)
(* C2: after signIn(P) has returned success, a fresh initialize() against  *)
(* the same durable store ends Authenticated with a profile equal to P,    *)
(* carrying the generated id when P had none.                              *)
(***************************************************************************)
\* signIn(P) returned in an earlier process and no call changed anything since
SignInReturnedBefore ==
    /\ lastReturn.op = "signIn"
    /\ lastReturn.process < restarts
    /\ lastReturn.result = Success

\* the session is P, with a generated id when P had no id
SessionEqualsSignedIn ==
    /\ Authenticated
    /\ currentUser = lastReturn.user
    /\ IF Truthy(Get(lastReturn.arg, "id"))
       THEN currentUser = lastReturn.arg
       ELSE \E id \in GeneratedIds : currentUser = Put(lastReturn.arg, "id", id)

SignOutReturnedBefore ==
    /\ lastReturn.op = "signOut"
    /\ lastReturn.process < restarts

C4_AuthenticatedProfileValid ==
    Authenticated => RoleConstraintsOK(currentUser)

(***************************************************************************)
(* C5: the role queries partition the session: Unauthenticated gives       *)
(* isAdmin() = false and isStudent() = false (the boolean); Authenticated  *)
(* gives exactly one of them true, isAdmin() iff Profile.isAdmin === true  *)
(* and isStudent() iff Profile.isAdmin is falsy.                           *)
(***************************************************************************)
C5_RoleQueriesPartition ==
    /\ currentUser = Null => (isAdmin = Bool(FALSE) /\ isStudent = Bool(FALSE))
    /\ currentUser # Null =>
           /\ isAdmin \in {Bool(TRUE), Bool(FALSE)}
           /\ isStudent \in {Bool(TRUE), Bool(FALSE)}
           /\ (isAdmin = Bool(TRUE)) # (isStudent = Bool(TRUE))
           /\ (isAdmin = Bool(TRUE)) <=> (Get(currentUser, "isAdmin") = Bool(TRUE))
           /\ (isStudent = Bool(TRUE)) <=> ~Truthy(Get(currentUser, "isAdmin"))

(***************************************************************************)
(* C6: a valid signIn makes the session Authenticated with the candidate   *)
(* before its write; when that write fails, signIn still returns           *)
(* {success: true} and the in-memory session is left as it is: nothing is  *)
(* rolled back.                                                            *)
(***************************************************************************)
C6_FailedWriteStillSucceeds ==
    /\ [][ ( /\ calls' = calls + 1
              /\ event'.kind = "call"
              /\ event'.op = "signIn"
              /\ event'.accepted )
            => ( /\ currentUser' = event'.value
                 /\ isAuthenticated'
                 /\ Len(pending') = Len(pending) + 1 ) ]_vars
    /\ [][ ( /\ Len(pending') < Len(pending)
              /\ event'.kind = "return"
              /\ event'.op = "signIn"
              /\ ~event'.ok )
            => ( /\ event'.result = Success
                 /\ UNCHANGED <<currentUser, isAuthenticated, loading>> ) ]_vars

C6_Witness ==
    /\ event.kind = "return"
    /\ event.op = "signIn"
    /\ ~event.ok
    /\ event.result = Success
    /\ Authenticated
    /\ currentUser = event.value
    /\ store # currentUser

(***************************************************************************)
(* C7: the restore always eventually sets loading to false, whether the    *)
(* read returns a profile, returns nothing or fails; a failed read gives   *)
(* the restore the same value as a missing key, and the restore then       *)
(* leaves the session as it is.                                            *)
(***************************************************************************)
C7_RestoreCompletes ==
    /\ [](loading => <>(~loading))
    /\ [][ (initPc = "reading" /\ initPc' = "resuming") => initUser' \in {store, Null} ]_vars
    /\ [][ (initPc = "resuming" /\ initPc' = "done" /\ initUser = Null)
           => (UNCHANGED <<currentUser, isAuthenticated>> /\ loading' = FALSE) ]_vars

C7_Witness ==
    /\ FreshRestore
    /\ store # Null
    /\ initUser = Null
    /\ ~loading
    /\ Unauthenticated

(***************************************************************************)
(* C8: when the restore completes with no other operation interleaved,     *)
(* the session is Authenticated(P) if and only if the store holds a        *)
(* well-formed Profile P; an absent or not-well-formed stored value leaves *)
(* the session Unauthenticated.  (Stated for a read the adapter answered.) *)
(***************************************************************************)
C8_RestoreIffWellFormed ==
    (FreshRestore /\ initUser = store)
        => IF WellFormed(store)
           THEN Authenticated /\ currentUser = store
           ELSE Unauthenticated

(***************************************************************************)
(* C9: loading is true until the restore of the process completes, and     *)
(* once false it stays false for the rest of that process, whatever calls  *)
(* follow or overlap the restore.                                          *)
(***************************************************************************)
C9_LoadingLatch ==
    /\ [](initPc # "done" => loading)
    /\ [][ (~loading /\ restarts' = restarts) => ~loading' ]_vars

C9_Witness ==
    /\ ~loading
    /\ interleaved
    /\ event.kind = "return"
    /\ calls >= 2

(***************************************************************************)
(* C10: signOut() from any state makes the in-memory session               *)
(* Unauthenticated and resolves to the plain boolean true.                 *)
(***************************************************************************)
C10_SignOutResolvesTrue ==
    /\ [][ (calls' = calls + 1 /\ event'.kind = "call" /\ event'.op = "signOut")
           => (currentUser' = Null /\ ~isAuthenticated') ]_vars
    /\ []((event.kind = "return" /\ event.op = "signOut") => event.result = Bool(TRUE))

(***************************************************************************)
(* C11: signOut is idempotent: the in-memory session, isAuthenticated,     *)
(* loading and the durable copy after two consecutive signOut() calls are  *)
(* those after one, and the second call completes without error.           *)
(***************************************************************************)
\* the sequence without its i-th element
Without(seq, i) == SubSeq(seq, 1, i - 1) \o SubSeq(seq, i + 1, Len(seq))

\* the step is a signOut() made when the last call or return was a signOut
\* and the session is as that signOut left it
SignOutAfterSignOut ==
    /\ calls' = calls + 1
    /\ event'.kind = "call"
    /\ event'.op = "signOut"
    /\ event.kind \in {"call", "return"}
    /\ event.op = "signOut"
    /\ Unauthenticated

\* the i-th suspended call is a signOut() made when a signOut() of this
\* process had returned last, and the step is its return
SecondSignOutReturns(i) ==
    /\ pending[i].op = "signOut"
    /\ pending[i].prev.op = "signOut"
    /\ pending[i].prev.process = restarts
    /\ pending' = Without(pending, i)
    /\ event'.kind = "return"
    /\ event'.op = "signOut"

\* the durable copy as the first of the two calls left it
AfterFirstSignOut(i) == saveKey(pending[i].prev.before, Null, pending[i].prev.ok)

C11_SignOutIdempotent ==
    /\ [][ SignOutAfterSignOut => UNCHANGED <<currentUser, isAuthenticated, loading>> ]_vars
    /\ [][ \A i \in 1..Len(pending) :
               SecondSignOutReturns(i)
                   => (store' = AfterFirstSignOut(i) /\ event'.result = Success) ]_vars

\* C11 as amended: the in-memory part as stated; the durable copy after the
\* second call is the one the first left when no other write landed between
\* them and the first call's write succeeded or the second's failed
C11_SignOutIdempotentInMemory ==
    /\ [][ SignOutAfterSignOut => UNCHANGED <<currentUser, isAuthenticated, loading>> ]_vars
    /\ [][ \A i \in 1..Len(pending) :
               ( /\ SecondSignOutReturns(i)
                 /\ store = AfterFirstSignOut(i)
                 /\ (pending[i].prev.ok \/ ~event'.ok) )
                   => (store' = store /\ event'.result = Success) ]_vars

C11_Witness ==
    /\ Unauthenticated
    /\ store = Null
    /\ event.kind = "call"
    /\ event.op = "signOut"
    /\ \E i \in 1..Len(pending) :
           /\ pending[i].op = "signOut"
           /\ pending[i].prev.op = "signOut"
           /\ pending[i].prev.process = restarts
           /\ pending[i].prev.ok
           /\ pending[i].prev.before # Null

(***************************************************************************)
(* C12: for every valid candidate P, after signIn(P) followed by           *)
(* signOut(), isAdmin() returns false, isStudent() returns false and       *)
(* getDisplayName() returns "Guest".                                       *)
(***************************************************************************)
\* the last call or return was a successful signIn of a valid candidate
ValidSignInWasLast ==
    /\ event.kind \in {"call", "return"}
    /\ event.op = "signIn"
    /\ IF event.kind = "call"
       THEN event.accepted /\ RoleConstraintsOK(event.arg)
       ELSE RoleConstraintsOK(event.value)

C12_QueriesAfterSignInSignOut ==
    [][ ( /\ ValidSignInWasLast
          /\ calls' = calls + 1
          /\ event'.kind = "call"
          /\ event'.op = "signOut" )
        => ( /\ isAdmin' = Bool(FALSE)
             /\ isStudent' = Bool(FALSE)
             /\ getDisplayName' = Text("Guest") ) ]_vars

(***************************************************************************)
(* C13: in every Unauthenticated state, also while loading, every          *)
(* updateProfile(fields) returns success false, leaves the session,        *)
(* isAuthenticated and loading unchanged and issues no adapter write.      *)
(***************************************************************************)
C13_UpdateWhileSignedOutRejected ==
    [][ ( /\ Unauthenticated
          /\ calls' = calls + 1
          /\ event'.kind = "call"
          /\ event'.op = "updateProfile" )
        => ( /\ ~event'.accepted
             /\ Get(event'.result, "success") = Bool(FALSE)
             /\ UNCHANGED <<currentUser, isAuthenticated, loading, store, pending>> ) ]_vars

(***************************************************************************)
(* C14: for every authenticated student Profile and every update whose     *)
(* merged year is present but is not an integer in 1..4 (5, 0, -1),        *)
(* updateProfile returns success false with an errors mapping containing   *)
(* the key year, and the in-memory Profile and the durable copy are        *)
(* unchanged.                                                              *)
(***************************************************************************)
\* year is an integer in 1..4
YearInRange(p) ==
    /\ IsInteger(Get(p, "year"))
    /\ ~NumLt(Get(p, "year"), 1)
    /\ ~NumGt(Get(p, "year"), 4)

C14_BadYearUpdateRejected ==
    [][ ( /\ Authenticated
          /\ ~Truthy(Get(currentUser, "isAdmin"))
          /\ calls' = calls + 1
          /\ event'.kind = "call"
          /\ event'.op = "updateProfile"
          /\ event'.cand = Spread(currentUser, event'.arg)
          /\ Present(event'.cand, "year")
          /\ ~YearInRange(event'.cand) )
        => ( /\ ~event'.accepted
             /\ Get(event'.result, "success") = Bool(FALSE)
             /\ "year" \in DOMAIN Get(event'.result, "errors").v
             /\ UNCHANGED <<currentUser, isAuthenticated, store, pending>> ) ]_vars

(***************************************************************************)
(* C15: for every valid candidate whose id is absent or empty, signIn      *)
(* returns success true and the session Profile has a non-empty generated  *)
(* id and is otherwise field-for-field equal to the candidate; for a valid *)
(* candidate that supplies a non-empty id, the session Profile keeps       *)
(* exactly that id.                                                        *)
(***************************************************************************)
\* the candidate meets the constraints of its role and its id, when
\* supplied, is a string
ValidCandidate(c) ==
    /\ IsObj(c)
    /\ RoleConstraintsOK(c)
    /\ Present(c, "id") => typeof(Get(c, "id")) = "string"

\* p is c with a non-empty string under id and every other field as in c
EqualButForId(p, c) ==
    /\ DOMAIN p.v = DOMAIN c.v \cup {"id"}
    /\ typeof(Get(p, "id")) = "string"
    /\ Len(Get(p, "id").v) > 0
    /\ \A k \in DOMAIN c.v \ {"id"} : p.v[k] = c.v[k]

C15_IdGeneratedOrKept ==
    /\ [][ ( /\ calls' = calls + 1
              /\ event'.kind = "call"
              /\ event'.op = "signIn"
              /\ ValidCandidate(event'.arg) )
            => ( /\ event'.accepted
                 /\ isAuthenticated'
                 /\ IF ~Present(event'.arg, "id") \/ Get(event'.arg, "id") = Str(<<>>)
                    THEN EqualButForId(currentUser', event'.arg)
                    ELSE currentUser' = event'.arg ) ]_vars
    /\ [][ ( /\ Len(pending') < Len(pending)
              /\ event'.kind = "return"
              /\ event'.op = "signIn" )
            => Get(event'.result, "success") = Bool(TRUE) ]_vars

C15_Witness ==
    /\ event.kind = "call"
    /\ event.op = "signIn"
    /\ event.accepted
    /\ Get(event.arg, "id") = Str(<<>>)
    /\ Authenticated
    /\ Get(currentUser, "id") \in GeneratedIds
    /\ Get(currentUser, "branch") = Get(event.arg, "branch")

(***************************************************************************)
(* C16: for every admin candidate (isAdmin === true) with a valid name and *)
(* no id, signIn returns success true: the missing id never yields the     *)
(* "ID is required" error, the Profile carries a generated id, and         *)
(* afterwards isAdmin() is true.                                           *)
(***************************************************************************)
AdminWithoutId(c) ==
    /\ IsObj(c)
    /\ Get(c, "isAdmin") = Bool(TRUE)
    /\ NameOK(c)
    /\ ~Present(c, "id")

C16_AdminWithoutIdSignsIn ==
    /\ [][ ( /\ calls' = calls + 1
              /\ event'.kind = "call"
              /\ event'.op = "signIn"
              /\ AdminWithoutId(event'.arg) )
            => ( /\ event'.accepted
                 /\ EqualButForId(currentUser', event'.arg)
                 /\ isAuthenticated'
                 /\ isAdmin' = Bool(TRUE) ) ]_vars
    /\ [][ ( /\ Len(pending') < Len(pending)
              /\ lastReturn'.op = "signIn"
              /\ AdminWithoutId(lastReturn'.arg) )
            => lastReturn'.result = Success ]_vars

C16_Witness ==
    /\ event.kind = "return"
    /\ lastReturn.op = "signIn"
    /\ AdminWithoutId(lastReturn.arg)
    /\ lastReturn.result = Success
    /\ Authenticated
    /\ Get(currentUser, "id") \in GeneratedIds
    /\ isAdmin = Bool(TRUE)

(***************************************************************************)
(* C17: in every reachable state getDisplayName() returns Profile.name     *)
(* when the session is Authenticated and "Guest" when it is                *)
(* Unauthenticated; it never returns "Guest" while a user is signed in.    *)
(***************************************************************************)
C17_DisplayNameIsProfileName ==
    /\ Authenticated =>
           /\ getDisplayName = Get(currentUser, "name")
           /\ getDisplayName # Text("Guest")
    /\ Unauthenticated => getDisplayName = Text("Guest")

(***************************************************************************)
(* C18: the session store exposes getRoleLabel(), which returns "Admin"    *)
(* in every state where isAdmin() is true and "Student" in every state     *)
(* where the session is an authenticated student.                          *)
(***************************************************************************)
C18_GetRoleLabelExposed ==
    /\ typeof(Get(contextValue, "getRoleLabel")) = "function"
    /\ isAdmin = Bool(TRUE) => CallQuery("getRoleLabel") = Text("Admin")
    /\ (Authenticated /\ isStudent = Bool(TRUE))
           => CallQuery("getRoleLabel") = Text("Student")

(***************************************************************************)
(* C19: validateStudentForm reports "Year must be between 1 and 4" under   *)
(* the key year exactly when year is supplied and is not an integer in     *)
(* 1..4 (0, negative, 5 and non-integer numbers are errors), and no year   *)
(* error when year is not supplied.                                        *)
(***************************************************************************)
C19_YearErrorIffOutOfRange ==
    validation.fn = "validateStudentForm" =>
        /\ "year" \in DOMAIN validation.value.errors
               <=> (Present(formData, "year") /\ ~YearInRange(formData))
        /\ "year" \in DOMAIN validation.value.errors
               => validation.value.errors["year"] = "Year must be between 1 and 4"

(***************************************************************************)
(* C20: validateStudentForm reports an error for rollNumber (resp.         *)
(* branch) exactly when that field is supplied with a non-string value,    *)
(* falsy non-strings such as 0 or false included, and none when the field  *)
(* is not supplied or is any string, the empty string included.            *)
(***************************************************************************)
C20_TextErrorIffNotString ==
    validation.fn = "validateStudentForm" =>
        \A field \in {"rollNumber", "branch"} :
            field \in DOMAIN validation.value.errors
                <=> (Present(formData, field) /\ typeof(Get(formData, field)) # "string")

(***************************************************************************)
(* C21: both validators apply the same name rule: name missing, not a      *)
(* string, or of trimmed length 0 gives errors.name = "Name is required";  *)
(* otherwise trimmed length < 2 gives "Name must be at least 2             *)
(* characters"; otherwise no name error.  The result is valid if and only  *)
(* if the errors mapping is empty, and it holds no key other than those    *)
(* of the validator's fields.                                              *)
(***************************************************************************)
\* the name error the rule gives for the form data: a mapping with the key
\* name, or the empty mapping
NameRule(d) ==
    LET name == Get(d, "name") IN
    IF typeof(name) # "string" THEN [name |-> "Name is required"]
    ELSE IF Len(trim(name.v)) = 0 THEN [name |-> "Name is required"]
    ELSE IF Len(trim(name.v)) < 2 THEN [name |-> "Name must be at least 2 characters"]
    ELSE <<>>

\* the errors mapping restricted to the key name
NameErrorOf(errors) == [k \in DOMAIN errors \cap {"name"} |-> errors[k]]

C21_NameRuleShared ==
    validation.fn \in {"validateStudentForm", "validateAdminForm"} =>
        /\ NameErrorOf(validation.value.errors) = NameErrorOf(NameRule(formData))
        /\ validation.value.isValid <=> DOMAIN validation.value.errors = {}
        /\ DOMAIN validation.value.errors \subseteq
               IF validation.fn = "validateStudentForm"
               THEN {"name", "rollNumber", "branch", "year"}
               ELSE {"name", "id", "isAdmin"}

C21_Witness ==
    /\ validation.fn = "validateAdminForm"
    /\ Get(formData, "name") = Str(<<" ", "J", " ">>)
    /\ Get(formData, "isAdmin") = Bool(TRUE)
    /\ Get(formData, "id") = Str(<<"a", "1">>)
    /\ validation.value.errors = [name |-> "Name must be at least 2 characters"]
    /\ ~validation.value.isValid

(***************************************************************************)
(* C22: validateAdminForm reports "ID is required" under the key id        *)
(* exactly when id is missing or empty after trimming, and "Admin flag     *)
(* must be true" under the key isAdmin exactly when isAdmin is not         *)
(* literally the boolean true (truthy non-boolean values are rejected).    *)
(***************************************************************************)
\* id is missing, or a string that is empty after trimming
IdMissingOrEmpty(d) ==
    \/ ~Present(d, "id")
    \/ typeof(Get(d, "id")) = "string" /\ Len(trim(Get(d, "id").v)) = 0

\* the isAdmin error is reported exactly when the flag is not the boolean true
AdminFlagRuleHolds ==
    /\ "isAdmin" \in DOMAIN validation.value.errors <=> Get(formData, "isAdmin") # Bool(TRUE)
    /\ "isAdmin" \in DOMAIN validation.value.errors
           => validation.value.errors["isAdmin"] = "Admin flag must be true"

C22_AdminRules ==
    validation.fn = "validateAdminForm" =>
        /\ "id" \in DOMAIN validation.value.errors <=> IdMissingOrEmpty(formData)
        /\ "id" \in DOMAIN validation.value.errors
               => validation.value.errors["id"] = "ID is required"
        /\ AdminFlagRuleHolds

\* C22 as amended: the id error is reported also when id is not a string
C22_AdminRulesWithNonStringId ==
    validation.fn = "validateAdminForm" =>
        /\ "id" \in DOMAIN validation.value.errors
               <=> (IdMissingOrEmpty(formData) \/ typeof(Get(formData, "id")) # "string")
        /\ "id" \in DOMAIN validation.value.errors
               => validation.value.errors["id"] = "ID is required"
        /\ AdminFlagRuleHolds

C22_Witness ==
    /\ validation.fn = "validateAdminForm"
    /\ Get(formData, "name") = Jo
    /\ Get(formData, "id") = Str(<<" ">>)
    /\ Get(formData, "isAdmin") = Str(<<"y">>)
    /\ DOMAIN validation.value.errors = {"id", "isAdmin"}

(***************************************************************************)
(* C23: every successful updateProfile(fields) sets the session to the     *)
(* in-memory Profile as it stands when the call is made with fields        *)
(* shallow-overlaid and persists that same value, so that of updates       *)
(* issued one after another, each awaited, none is lost.                   *)
(***************************************************************************)
\* stated for an updateProfile made when the last call, an updateProfile, has
\* returned
C23_UpdateOverlaysLiveProfile ==
    [][ ( /\ Authenticated
          /\ event.kind = "return"
          /\ event.op = "updateProfile"
          /\ calls' = calls + 1
          /\ event'.kind = "call"
          /\ event'.op = "updateProfile"
          /\ event'.accepted )
        => ( /\ currentUser' = Spread(currentUser, event'.arg)
             /\ event'.value = currentUser' ) ]_vars

(***************************************************************************)
(* C24: each mutating operation validates, then mutates the in-memory      *)
(* state, then persists, then returns: a rejected call mutates nothing,    *)
(* the in-memory session already shows the new value while the adapter     *)
(* write is in flight, and a call returns in the step in which its         *)
(* adapter write is settled, not before.                                   *)
(***************************************************************************)
C24_ValidateMutatePersistReturn ==
    /\ [][ (calls' = calls + 1 /\ event'.kind = "call")
            => IF event'.accepted
               THEN /\ currentUser' = event'.value
                    /\ store' = store
                    /\ \E i \in 1..Len(pending') :
                           /\ pending'[i].op = event'.op
                           /\ pending'[i].value = event'.value
                           /\ pending = Without(pending', i)
               ELSE UNCHANGED <<currentUser, isAuthenticated, loading, store, pending>> ]_vars
    /\ [][ (event'.kind = "return" /\ pending' # pending)
            => \E i \in 1..Len(pending) :
                   /\ pending[i].op = event'.op
                   /\ pending' = Without(pending, i)
                   /\ store' = saveKey(store, pending[i].value, event'.ok)
                   /\ UNCHANGED <<currentUser, isAuthenticated, loading>> ]_vars
    /\ [][ store' # store => (event'.kind = "return" /\ Len(pending') < Len(pending)) ]_vars

C24_Witness ==
    /\ event.kind = "call"
    /\ event.op = "updateProfile"
    /\ event.accepted
    /\ currentUser = event.value
    /\ store # currentUser
    /\ Len(pending) = 1
    /\ pending[1].value = currentUser

(***************************************************************************)
(* C25: every call of signIn, signOut or updateProfile makes at most one   *)
(* write attempt (exactly one when the in-memory transition happens, none  *)
(* when the call is rejected), the restore makes exactly one read, and no  *)
(* adapter call is retried after a failure.                                *)
(***************************************************************************)
C25_OneAttemptPerCall ==
    /\ [][ (calls' = calls + 1 /\ event'.kind = "call")
            => Len(pending') = Len(pending) + (IF event'.accepted THEN 1 ELSE 0) ]_vars
    /\ [][ Len(pending') > Len(pending) => calls' = calls + 1 ]_vars
    /\ [][ (restarts' = restarts /\ (store' # store \/ lastReturn' # lastReturn))
            => (Len(pending') = Len(pending) - 1 \/ calls' = calls + 1) ]_vars
    /\ [][ (restarts' = restarts /\ event'.kind = "return" /\ event' # event)
            => Len(pending') = Len(pending) - 1 ]_vars
    /\ [][ (restarts' = restarts /\ initPc' # initPc)
            => \/ initPc = "reading" /\ initPc' = "resuming"
               \/ initPc = "resuming" /\ initPc' = "done" ]_vars
    /\ [][ initUser' # initUser
            => (initPc = "reading" /\ initPc' = "resuming") \/ restarts' = restarts + 1 ]_vars

C25_Witness ==
    /\ initPc = "done"
    /\ initUser = Null
    /\ store # Null
    /\ event.kind = "return"
    /\ ~event.ok
    /\ pending = <<>>
    /\ calls = 1
    /\ restarts = 0

(***************************************************************************)
(* C26: in every reachable Authenticated state the Profile's id is a       *)
(* non-empty string, whatever signIn, updateProfile (also with an id field *)
(* such as the empty string) or restore led to it.                         *)
(***************************************************************************)
C26_AuthenticatedIdNonEmpty ==
    Authenticated =>
        /\ typeof(Get(currentUser, "id")) = "string"
        /\ Len(Get(currentUser, "id").v) > 0

(***************************************************************************)
(* C27: in every reachable state isAuthenticated is true if and only if    *)
(* the current Profile is present, also after an updateProfile invoked     *)
(* through a callback captured before a signOut.                           *)
(***************************************************************************)
C27_FlagAgreesWithSlot ==
    isAuthenticated <=> currentUser # Null

(***************************************************************************)
(* C28: a signIn or signOut whose in-memory transition happens while the   *)
(* restore is still awaiting the adapter is not overwritten when the       *)
(* restore resolves: the completing restore leaves the session as that     *)
(* operation set it.                                                       *)
(***************************************************************************)
C28_RestoreDoesNotOverwrite ==
    [][ ( /\ initPc = "resuming"
          /\ initPc' = "done"
          /\ interleaved
          /\ event.kind \in {"call", "return"}
          /\ event.op \in {"signIn", "signOut"} )
        => UNCHANGED <<currentUser, isAuthenticated>> ]_vars

(***************************************************************************)
(* C29: whenever no operation is in flight and no adapter call has failed, *)
(* the durable copy equals the in-memory session: the stored Profile when  *)
(* Authenticated, the cleared value when Unauthenticated, also when calls  *)
(* were started without awaiting each other and their writes completed out *)
(* of order.  (Checked with an adapter that never fails, for a session     *)
(* whose restore completed before the first call.)                         *)
(***************************************************************************)
C29_DurableEqualsSession ==
    (pending = <<>> /\ initPc = "done" /\ ~interleaved) =>
        /\ Authenticated => store = currentUser
        /\ Unauthenticated => store = Null
        /\ Authenticated \/ Unauthenticated

====
